---- MODULE Spec2Model ----
(***************************************************************************)
(* Model of the C shims of soto-core:                                      *)
(*   - Sources/CAWSSDKOpenSSL/shims.c: AWSSDK_HMAC_CTX_new/_free, the      *)
(*     version-bridging constructor/destructor of an OpenSSL HMAC context; *)
(*   - Sources/CAWSExpat/include/expat_prefix_symbols.h: the macro table   *)
(*     that renames every expat symbol X to AWS_X.                         *)
(* The OpenSSL heap is modelled by the set of allocated blocks and the set *)
(* of contexts whose internal state is initialized and not yet cleaned up. *)
(***************************************************************************)
EXTENDS Integers, Sequences, FiniteSets, TLC

\* ---------------------------------------------------------------- bounds
NumAddr == 2        \* number of distinct heap addresses the allocator has
MaxCalls == 4       \* number of shim calls in one run
MaxEquivCalls == 6  \* number of shim calls in one side-by-side run

\* ------------------------------------------------------------- constants
NULL == 0
Undefined == 0 - 1                  \* a macro that is not #defined
LegacyOpenSSLLimit == 269484032     \* 0x10100000L
LegacyLibreSSLLimit == 544210959    \* 0x2070000fL

Addr == 1..NumAddr
Handle == Addr \cup {NULL}

\* Values of OPENSSL_VERSION_NUMBER the shim may be compiled against:
\* undefined, 1.0.2 (0x1000200f), 0x100fffff, 1.1.0 (0x10100000),
\* 1.1.1 (0x1010100f), and LibreSSL's fixed 0x20000000.
OpenSSLVersions ==
    {Undefined, 268443663, 269484031, 269484032, 269488143, 536870912}

\* Values of LIBRESSL_VERSION_NUMBER: undefined, 2.6.0 (0x2060000f),
\* 0x2070000e, 2.7.0 (0x2070000f), 3.0.0 (0x3000000f).
LibreSSLVersions ==
    {Undefined, 543162383, 544210958, 544210959, 805306383}

VARIABLES
    opensslVersion,   \* OPENSSL_VERSION_NUMBER of the build
    libresslVersion,  \* LIBRESSL_VERSION_NUMBER of the build
    lib,              \* state of the linked OpenSSL library
    owned,            \* handles the caller got from new and has not freed
    misuse,           \* the caller passed a non-null handle it does not own
    calls,            \* number of shim calls made
    lastOp,           \* the most recent shim call
    prevOp,           \* the shim call before it
    legacyLib,        \* product run: library state of the legacy build
    modernLib,        \* product run: library state of the modern build
    legacyRet,        \* product run: last value returned by the legacy build
    modernRet,        \* product run: last value returned by the modern build
    equivCalls,       \* product run: number of calls made
    cppPos,           \* preprocessor: index of the token being scanned
    cppCur,           \* preprocessor: the token under expansion
    cppHide,          \* preprocessor: macros that are being replaced
    cppOut            \* preprocessor: tokens emitted so far

shimVars == <<opensslVersion, libresslVersion, lib, owned, misuse, calls,
              lastOp, prevOp>>
equivVars == <<legacyLib, modernLib, legacyRet, modernRet, equivCalls>>
cppVars == <<cppPos, cppCur, cppHide, cppOut>>
vars == <<shimVars, equivVars, cppVars>>

\* ------------------------------------------------ the OpenSSL library
\* allocated:   blocks handed out by the allocator and not released
\* initialized: contexts whose internal state is set up and not cleaned up
\* origin:      the call that allocated the block at an address
\* allocs..frees: how often each library step was applied to an address
\* ub:          a library call was made outside its contract
\* trace:       library calls made by the shim call in progress, each as
\*              <<function, pointer passed to it or returned by it>>
EmptyLib ==
    [allocated |-> {}, initialized |-> {},
     origin |-> [a \in Addr |-> "none"],
     allocs |-> [a \in Addr |-> 0], inits |-> [a \in Addr |-> 0],
     cleanups |-> [a \in Addr |-> 0], frees |-> [a \in Addr |-> 0],
     ub |-> FALSE, trace |-> <<>>]

Called(s, fn, arg) == [s EXCEPT !.trace = Append(@, <<fn, arg>>)]

\* p is the allocator's outcome: NULL on failure, else a block not in use.
OPENSSL_malloc(s, p) ==
    LET t == Called(s, "OPENSSL_malloc", p) IN
    IF p = NULL THEN t
    ELSE [t EXCEPT !.allocated = @ \cup {p}, !.origin[p] = "OPENSSL_malloc",
                   !.allocs[p] = @ + 1]

HMAC_CTX_init(s, ctx) ==
    LET t == Called(s, "HMAC_CTX_init", ctx) IN
    IF ctx \notin s.allocated THEN [t EXCEPT !.ub = TRUE]
    ELSE [t EXCEPT !.initialized = @ \cup {ctx}, !.inits[ctx] = @ + 1]

HMAC_CTX_cleanup(s, ctx) ==
    LET t == Called(s, "HMAC_CTX_cleanup", ctx) IN
    IF ctx \notin s.allocated \/ ctx \notin s.initialized
    THEN [t EXCEPT !.ub = TRUE]
    ELSE [t EXCEPT !.initialized = @ \ {ctx}, !.cleanups[ctx] = @ + 1]

OPENSSL_free(s, p) ==
    LET t == Called(s, "OPENSSL_free", p) IN
    IF p = NULL THEN t
    ELSE IF p \notin s.allocated THEN [t EXCEPT !.ub = TRUE]
    ELSE [t EXCEPT !.allocated = @ \ {p}, !.frees[p] = @ + 1]

HMAC_CTX_new(s, p) ==
    LET t == Called(s, "HMAC_CTX_new", p) IN
    IF p = NULL THEN t
    ELSE [t EXCEPT !.allocated = @ \cup {p}, !.initialized = @ \cup {p},
                   !.origin[p] = "HMAC_CTX_new",
                   !.allocs[p] = @ + 1, !.inits[p] = @ + 1]

HMAC_CTX_free(s, ctx) ==
    LET t == Called(s, "HMAC_CTX_free", ctx) IN
    IF ctx = NULL THEN t
    ELSE IF ctx \notin s.allocated \/ ctx \notin s.initialized
    THEN [t EXCEPT !.ub = TRUE]
    ELSE [t EXCEPT !.allocated = @ \ {ctx}, !.initialized = @ \ {ctx},
                   !.cleanups[ctx] = @ + 1, !.frees[ctx] = @ + 1]

\* ------------------------------------------------------------ shims.c
\* In #if an identifier that is not a macro evaluates to 0.
PPValue(v) == IF v = Undefined THEN 0 ELSE v
defined(v) == v # Undefined

\* mutant: the destructor's #if forgets the LibreSSL clause
FreeGuard_NoLibreSSL(ov, lv) == PPValue(ov) < LegacyOpenSSLLimit

\* shims.c:14, the #if of AWSSDK_HMAC_CTX_new
NewGuard(ov, lv) ==
    PPValue(ov) < LegacyOpenSSLLimit
        \/ (defined(lv) /\ PPValue(lv) < LegacyLibreSSLLimit)

\* shims.c:26, the #if of AWSSDK_HMAC_CTX_free
FreeGuard(ov, lv) ==
    PPValue(ov) < LegacyOpenSSLLimit
        \/ (defined(lv) /\ PPValue(lv) < LegacyLibreSSLLimit)

\* mutant: the block is returned without running the initializer
LegacyNew_NoInit(s, p) == [lib |-> OPENSSL_malloc(s, p), ret |-> p]

\* mutant: the initializer runs without the ctx != NULL test
LegacyNew_NoNullCheck(s, p) ==
    [lib |-> HMAC_CTX_init(OPENSSL_malloc(s, p), p), ret |-> p]

\* shims.c:15-19
LegacyNew(s, p) ==
    LET s1 == OPENSSL_malloc(s, p)
        ctx == p
    IN  [lib |-> IF ctx # NULL THEN HMAC_CTX_init(s1, ctx) ELSE s1,
         ret |-> ctx]

\* shims.c:21
ModernNew(s, p) == [lib |-> HMAC_CTX_new(s, p), ret |-> p]

\* mutant: cleanup and release without the ctx != NULL test
LegacyFree_NoNullCheck(s, ctx) == OPENSSL_free(HMAC_CTX_cleanup(s, ctx), ctx)

\* mutant: the block is cleaned up but never released
LegacyFree_NoRelease(s, ctx) ==
    IF ctx # NULL THEN HMAC_CTX_cleanup(s, ctx) ELSE s

\* mutant: the block is released without cleaning up its internal state
LegacyFree_NoCleanup(s, ctx) ==
    IF ctx # NULL THEN OPENSSL_free(s, ctx) ELSE s

\* mutant: the block is released before it is cleaned up
LegacyFree_ReleaseFirst(s, ctx) ==
    IF ctx # NULL THEN HMAC_CTX_cleanup(OPENSSL_free(s, ctx), ctx) ELSE s

\* shims.c:27-30
LegacyFree(s, ctx) ==
    IF ctx # NULL THEN OPENSSL_free(HMAC_CTX_cleanup(s, ctx), ctx) ELSE s

\* shims.c:32
ModernFree(s, ctx) == HMAC_CTX_free(s, ctx)

AWSSDK_HMAC_CTX_new(ov, lv, s, p) ==
    IF NewGuard(ov, lv) THEN LegacyNew(s, p) ELSE ModernNew(s, p)

AWSSDK_HMAC_CTX_free(ov, lv, s, ctx) ==
    IF FreeGuard(ov, lv) THEN LegacyFree(s, ctx) ELSE ModernFree(s, ctx)

Enter(s) == [s EXCEPT !.trace = <<>>]

NoOp ==
    [op |-> "none", arg |-> NULL, alloc |-> NULL, ret |-> NULL,
     argOrigin |-> "none", pre |-> EmptyLib]

ShimInit ==
    /\ opensslVersion \in OpenSSLVersions
    /\ libresslVersion \in LibreSSLVersions
    /\ lib = EmptyLib
    /\ owned = {}
    /\ misuse = FALSE
    /\ calls = 0
    /\ lastOp = NoOp
    /\ prevOp = NoOp

\* The caller calls AWSSDK_HMAC_CTX_new(); the allocator underneath either
\* fails (p = NULL) or hands out a block p that is not in use.
New(p) ==
    /\ calls < MaxCalls
    /\ ~lib.ub
    /\ p = NULL \/ p \notin lib.allocated
    /\ LET r == AWSSDK_HMAC_CTX_new(opensslVersion, libresslVersion,
                                    Enter(lib), p)
       IN  /\ lib' = r.lib
           /\ owned' = IF r.ret = NULL THEN owned ELSE owned \cup {r.ret}
           /\ lastOp' = [op |-> "new", arg |-> NULL, alloc |-> p,
                         ret |-> r.ret, argOrigin |-> "none", pre |-> lib]
    /\ prevOp' = lastOp
    /\ calls' = calls + 1
    /\ UNCHANGED <<opensslVersion, libresslVersion, misuse>>

\* The caller calls AWSSDK_HMAC_CTX_free(ctx) with any pointer value.
Free(ctx) ==
    /\ calls < MaxCalls
    /\ ~lib.ub
    /\ lib' = AWSSDK_HMAC_CTX_free(opensslVersion, libresslVersion,
                                   Enter(lib), ctx)
    /\ owned' = owned \ {ctx}
    /\ misuse' = (misuse \/ (ctx # NULL /\ ctx \notin owned))
    /\ lastOp' = [op |-> "free", arg |-> ctx, alloc |-> NULL, ret |-> NULL,
                  argOrigin |-> IF ctx = NULL THEN "none" ELSE lib.origin[ctx],
                  pre |-> lib]
    /\ prevOp' = lastOp
    /\ calls' = calls + 1
    /\ UNCHANGED <<opensslVersion, libresslVersion>>

\* ------------------------------------------- the two builds side by side
\* The same caller runs against a legacy build (OpenSSL 1.0.2) and a modern
\* build (OpenSSL 1.1.1); the allocator underneath behaves alike in both.
LegacyBuildOpenSSL == 268443663     \* 0x1000200f
ModernBuildOpenSSL == 269488143     \* 0x1010100f

Ready(s) == s.allocated \cap s.initialized

EquivIdle ==
    /\ legacyLib = EmptyLib
    /\ modernLib = EmptyLib
    /\ legacyRet = NULL
    /\ modernRet = NULL
    /\ equivCalls = 0

EquivNew(p) ==
    /\ equivCalls < MaxEquivCalls
    /\ ~legacyLib.ub /\ ~modernLib.ub
    /\ p = NULL \/ p \notin (legacyLib.allocated \cup modernLib.allocated)
    /\ LET l == AWSSDK_HMAC_CTX_new(LegacyBuildOpenSSL, Undefined,
                                    Enter(legacyLib), p)
           m == AWSSDK_HMAC_CTX_new(ModernBuildOpenSSL, Undefined,
                                    Enter(modernLib), p)
       IN  /\ legacyLib' = l.lib
           /\ modernLib' = m.lib
           /\ legacyRet' = l.ret
           /\ modernRet' = m.ret
    /\ equivCalls' = equivCalls + 1

\* The caller frees NULL or a context that is live in either build.
EquivFree(ctx) ==
    /\ equivCalls < MaxEquivCalls
    /\ ~legacyLib.ub /\ ~modernLib.ub
    /\ ctx = NULL \/ ctx \in (Ready(legacyLib) \cup Ready(modernLib))
    /\ legacyLib' = AWSSDK_HMAC_CTX_free(LegacyBuildOpenSSL, Undefined,
                                         Enter(legacyLib), ctx)
    /\ modernLib' = AWSSDK_HMAC_CTX_free(ModernBuildOpenSSL, Undefined,
                                         Enter(modernLib), ctx)
    /\ legacyRet' = NULL
    /\ modernRet' = NULL
    /\ equivCalls' = equivCalls + 1

\* ---------------------------------------------- expat_prefix_symbols.h
\* A preprocessing token under expansion: an identifier, the invocation of a
\* function-like macro with two one-identifier arguments, or a pending
\* a ## _ ## b.
NoToken == [kind |-> "none", name |-> "", a |-> "", b |-> ""]
Id(n) == [kind |-> "id", name |-> n, a |-> "", b |-> ""]
Invoke(m, x, y) == [kind |-> "call", name |-> m, a |-> x, b |-> y]
PasteOf(x, y) == [kind |-> "paste", name |-> "", a |-> x, b |-> y]

\* line 18: #define EXPAT_PREFIX AWS
EXPAT_PREFIX == Id("AWS")

\* mutant: the outer macro pastes its parameters itself, so its arguments
\* are operands of ## and are substituted without being expanded
EXPAT_ADD_PREFIX_OneLevel == [body |-> "paste", callee |-> ""]

\* line 20: #define EXPAT_ADD_PREFIX(a, b) EXPAT_ADD_PREFIX_INNER(a, b)
\* a and b are no operands of # or ##: the arguments are completely
\* macro-expanded before they are substituted.
EXPAT_ADD_PREFIX == [body |-> "call", callee |-> "EXPAT_ADD_PREFIX_INNER"]

\* line 21: #define EXPAT_ADD_PREFIX_INNER(a, b) a ## _ ## b
EXPAT_ADD_PREFIX_INNER == [body |-> "paste", callee |-> ""]

\* mutant: a row whose base name is another row's symbol
RenameTable_Typo ==
    << <<"XML_GetBase", "XML_GetBase">>,
       <<"XML_SetBase", "XML_GetBase">>,
       <<"XML_Parse", "XML_Parse">> >>

\* lines 23-98: #define <name> EXPAT_ADD_PREFIX(EXPAT_PREFIX, <base>),
\* one row <<name, base>> per line
RenameTable ==
    <<
      <<"XmlGetUtf16InternalEncoding",
        "XmlGetUtf16InternalEncoding">>,
      <<"XmlGetUtf8InternalEncoding",
        "XmlGetUtf8InternalEncoding">>,
      <<"XmlInitEncoding",
        "XmlInitEncoding">>,
      <<"XmlInitUnknownEncoding",
        "XmlInitUnknownEncoding">>,
      <<"XmlParseXmlDecl",
        "XmlParseXmlDecl">>,
      <<"XmlSizeOfUnknownEncoding",
        "XmlSizeOfUnknownEncoding">>,
      <<"XmlUtf16Encode",
        "XmlUtf16Encode">>,
      <<"XmlUtf8Encode",
        "XmlUtf8Encode">>,
      <<"_INTERNAL_trim_to_complete_utf8_characters",
        "_INTERNAL_trim_to_complete_utf8_characters">>,
      <<"XML_DefaultCurrent",
        "XML_DefaultCurrent">>,
      <<"XML_ErrorString",
        "XML_ErrorString">>,
      <<"XML_ExpatVersion",
        "XML_ExpatVersion">>,
      <<"XML_ExpatVersionInfo",
        "XML_ExpatVersionInfo">>,
      <<"XML_ExternalEntityParserCreate",
        "XML_ExternalEntityParserCreate">>,
      <<"XML_FreeContentModel",
        "XML_FreeContentModel">>,
      <<"XML_GetBase",
        "XML_GetBase">>,
      <<"XML_GetBuffer",
        "XML_GetBuffer">>,
      <<"XML_GetCurrentByteCount",
        "XML_GetCurrentByteCount">>,
      <<"XML_GetCurrentByteIndex",
        "XML_GetCurrentByteIndex">>,
      <<"XML_GetCurrentColumnNumber",
        "XML_GetCurrentColumnNumber">>,
      <<"XML_GetCurrentLineNumber",
        "XML_GetCurrentLineNumber">>,
      <<"XML_GetErrorCode",
        "XML_GetErrorCode">>,
      <<"XML_GetFeatureList",
        "XML_GetFeatureList">>,
      <<"XML_GetIdAttributeIndex",
        "XML_GetIdAttributeIndex">>,
      <<"XML_GetInputContext",
        "XML_GetInputContext">>,
      <<"XML_GetParsingStatus",
        "XML_GetParsingStatus">>,
      <<"XML_GetSpecifiedAttributeCount",
        "XML_GetSpecifiedAttributeCount">>,
      <<"XML_MemFree",
        "XML_MemFree">>,
      <<"XML_MemMalloc",
        "XML_MemMalloc">>,
      <<"XML_MemRealloc",
        "XML_MemRealloc">>,
      <<"XML_Parse",
        "XML_Parse">>,
      <<"XML_ParseBuffer",
        "XML_ParseBuffer">>,
      <<"XML_ParserCreate",
        "XML_ParserCreate">>,
      <<"XML_ParserCreateNS",
        "XML_ParserCreateNS">>,
      <<"XML_ParserCreate_MM",
        "XML_ParserCreate_MM">>,
      <<"XML_ParserFree",
        "XML_ParserFree">>,
      <<"XML_ParserReset",
        "XML_ParserReset">>,
      <<"XML_ResumeParser",
        "XML_ResumeParser">>,
      <<"XML_SetAttlistDeclHandler",
        "XML_SetAttlistDeclHandler">>,
      <<"XML_SetBase",
        "XML_SetBase">>,
      <<"XML_SetCdataSectionHandler",
        "XML_SetCdataSectionHandler">>,
      <<"XML_SetCharacterDataHandler",
        "XML_SetCharacterDataHandler">>,
      <<"XML_SetCommentHandler",
        "XML_SetCommentHandler">>,
      <<"XML_SetDefaultHandler",
        "XML_SetDefaultHandler">>,
      <<"XML_SetDefaultHandlerExpand",
        "XML_SetDefaultHandlerExpand">>,
      <<"XML_SetDoctypeDeclHandler",
        "XML_SetDoctypeDeclHandler">>,
      <<"XML_SetElementDeclHandler",
        "XML_SetElementDeclHandler">>,
      <<"XML_SetElementHandler",
        "XML_SetElementHandler">>,
      <<"XML_SetEncoding",
        "XML_SetEncoding">>,
      <<"XML_SetEndCdataSectionHandler",
        "XML_SetEndCdataSectionHandler">>,
      <<"XML_SetEndDoctypeDeclHandler",
        "XML_SetEndDoctypeDeclHandler">>,
      <<"XML_SetEndElementHandler",
        "XML_SetEndElementHandler">>,
      <<"XML_SetEndNamespaceDeclHandler",
        "XML_SetEndNamespaceDeclHandler">>,
      <<"XML_SetEntityDeclHandler",
        "XML_SetEntityDeclHandler">>,
      <<"XML_SetExternalEntityRefHandler",
        "XML_SetExternalEntityRefHandler">>,
      <<"XML_SetExternalEntityRefHandlerArg",
        "XML_SetExternalEntityRefHandlerArg">>,
      <<"XML_SetHashSalt",
        "XML_SetHashSalt">>,
      <<"XML_SetNamespaceDeclHandler",
        "XML_SetNamespaceDeclHandler">>,
      <<"XML_SetNotStandaloneHandler",
        "XML_SetNotStandaloneHandler">>,
      <<"XML_SetNotationDeclHandler",
        "XML_SetNotationDeclHandler">>,
      <<"XML_SetParamEntityParsing",
        "XML_SetParamEntityParsing">>,
      <<"XML_SetProcessingInstructionHandler",
        "XML_SetProcessingInstructionHandler">>,
      <<"XML_SetReturnNSTriplet",
        "XML_SetReturnNSTriplet">>,
      <<"XML_SetSkippedEntityHandler",
        "XML_SetSkippedEntityHandler">>,
      <<"XML_SetStartCdataSectionHandler",
        "XML_SetStartCdataSectionHandler">>,
      <<"XML_SetStartDoctypeDeclHandler",
        "XML_SetStartDoctypeDeclHandler">>,
      <<"XML_SetStartElementHandler",
        "XML_SetStartElementHandler">>,
      <<"XML_SetStartNamespaceDeclHandler",
        "XML_SetStartNamespaceDeclHandler">>,
      <<"XML_SetUnknownEncodingHandler",
        "XML_SetUnknownEncodingHandler">>,
      <<"XML_SetUnparsedEntityDeclHandler",
        "XML_SetUnparsedEntityDeclHandler">>,
      <<"XML_SetUserData",
        "XML_SetUserData">>,
      <<"XML_SetXmlDeclHandler",
        "XML_SetXmlDeclHandler">>,
      <<"XML_StopParser",
        "XML_StopParser">>,
      <<"XML_UseForeignDTD",
        "XML_UseForeignDTD">>,
      <<"XML_UseParserAsHandlerArg",
        "XML_UseParserAsHandlerArg">>,
      <<"XmlPrologStateInit",
        "XmlPrologStateInit">>
    >>

TableNames == {RenameTable[i][1] : i \in DOMAIN RenameTable}
RowOf(n) == CHOOSE i \in DOMAIN RenameTable : RenameTable[i][1] = n

IsObjectMacro(n) == n = "EXPAT_PREFIX" \/ n \in TableNames
ObjectBody(n) ==
    IF n = "EXPAT_PREFIX" THEN EXPAT_PREFIX
    ELSE Invoke("EXPAT_ADD_PREFIX", "EXPAT_PREFIX", RenameTable[RowOf(n)][2])

IsFunctionMacro(n) == n \in {"EXPAT_ADD_PREFIX", "EXPAT_ADD_PREFIX_INNER"}
FunctionMacro(n) ==
    IF n = "EXPAT_ADD_PREFIX" THEN EXPAT_ADD_PREFIX
    ELSE EXPAT_ADD_PREFIX_INNER

\* A token can be rewritten when it is a macro that is not being replaced
\* already, a macro invocation, or a pending paste.
CanStep(t, hide) ==
    \/ t.kind = "id" /\ IsObjectMacro(t.name) /\ t.name \notin hide
    \/ t.kind = "call" /\ IsFunctionMacro(t.name) /\ t.name \notin hide
    \/ t.kind = "paste"

RECURSIVE Normalize(_, _)

\* One replacement step of the preprocessor on token t, with the macros in
\* hide disabled because their replacement is being rescanned.
Step(t, hide) ==
    IF t.kind = "id" THEN
        [tok |-> ObjectBody(t.name), hide |-> hide \cup {t.name}]
    ELSE IF t.kind = "paste" THEN
        [tok |-> Id(t.a \o "_" \o t.b), hide |-> hide]
    ELSE LET d == FunctionMacro(t.name) IN
        IF d.body = "call" THEN
            [tok |-> Invoke(d.callee, Normalize(Id(t.a), hide).name,
                                      Normalize(Id(t.b), hide).name),
             hide |-> hide \cup {t.name}]
        ELSE
            [tok |-> PasteOf(t.a, t.b), hide |-> hide \cup {t.name}]

\* Complete macro expansion of a token (argument prescan).
Normalize(t, hide) ==
    IF CanStep(t, hide)
    THEN LET r == Step(t, hide) IN Normalize(r.tok, r.hide)
    ELSE t

\* The identifiers of a translation unit of the library, in order: every
\* symbol of the table, then identifiers the table does not name.
Source ==
    [i \in 1..Len(RenameTable) |-> RenameTable[i][1]]
        \o <<"XML_Parser", "XML_Char", "AWS">>

CppInit ==
    /\ cppPos = 0
    /\ cppCur = NoToken
    /\ cppHide = {}
    /\ cppOut = <<>>

\* The preprocessor reads the next identifier of the translation unit.
Scan ==
    /\ cppCur = NoToken
    /\ cppPos < Len(Source)
    /\ cppPos' = cppPos + 1
    /\ cppCur' = Id(Source[cppPos + 1])
    /\ cppHide' = {}
    /\ UNCHANGED cppOut

\* One macro replacement on the token under expansion, then rescan.
Rewrite ==
    /\ cppCur # NoToken
    /\ CanStep(cppCur, cppHide)
    /\ LET r == Step(cppCur, cppHide)
       IN  /\ cppCur' = r.tok
           /\ cppHide' = r.hide
    /\ UNCHANGED <<cppPos, cppOut>>

\* Nothing is left to replace: the token goes to the compiler.
Emit ==
    /\ cppCur # NoToken
    /\ ~CanStep(cppCur, cppHide)
    /\ cppCur.kind = "id"
    /\ cppOut' = Append(cppOut, cppCur.name)
    /\ cppCur' = NoToken
    /\ cppHide' = {}
    /\ UNCHANGED cppPos

ShimIdle ==
    /\ opensslVersion = Undefined
    /\ libresslVersion = Undefined
    /\ lib = EmptyLib
    /\ owned = {}
    /\ misuse = FALSE
    /\ calls = 0
    /\ lastOp = NoOp
    /\ prevOp = NoOp

\* ------------------------------------------------------- specifications
Init == ShimInit /\ EquivIdle /\ CppInit

Next ==
    \/ \E p \in Handle : New(p) /\ UNCHANGED <<equivVars, cppVars>>
    \/ \E ctx \in Handle : Free(ctx) /\ UNCHANGED <<equivVars, cppVars>>

Spec == Init /\ [][Next]_vars

InitEquiv == ShimIdle /\ EquivIdle /\ CppInit

NextEquiv ==
    \/ \E p \in Handle : EquivNew(p) /\ UNCHANGED <<shimVars, cppVars>>
    \/ \E ctx \in Handle : EquivFree(ctx) /\ UNCHANGED <<shimVars, cppVars>>

SpecEquiv == InitEquiv /\ [][NextEquiv]_vars

InitPrefix == ShimIdle /\ EquivIdle /\ CppInit

NextPrefix ==
    \/ Scan /\ UNCHANGED <<shimVars, equivVars>>
    \/ Rewrite /\ UNCHANGED <<shimVars, equivVars>>
    \/ Emit /\ UNCHANGED <<shimVars, equivVars>>

SpecPrefix == InitPrefix /\ [][NextPrefix]_vars

\* ================================================================ claims
\* The condition under which the build is a legacy one, as C10 states it.
IsLegacyBuild ==
    PPValue(opensslVersion) < 269484032
        \/ (libresslVersion # Undefined /\ libresslVersion < 544210959)

SameHeap(s, t) ==
    /\ s.allocated = t.allocated
    /\ s.initialized = t.initialized

SameCounts(s, t) ==
    /\ s.allocs = t.allocs
    /\ s.inits = t.inits
    /\ s.cleanups = t.cleanups
    /\ s.frees = t.frees

TraceFns(s) == [i \in DOMAIN s.trace |-> s.trace[i][1]]

\* C1: AWSSDK_HMAC_CTX_free(NULL) is a no-op on both branches: the legacy
\* branch calls neither HMAC_CTX_cleanup nor OPENSSL_free, the modern branch
\* calls only HMAC_CTX_free(NULL), and the live contexts are unchanged.
C1_FreeNullIsNoOp ==
    (lastOp.op = "free" /\ lastOp.arg = NULL) =>
        /\ ~lib.ub
        /\ SameHeap(lib, lastOp.pre)
        /\ SameCounts(lib, lastOp.pre)
        /\ owned = Ready(lib)
        /\ IsLegacyBuild => lib.trace = <<>>
        /\ ~IsLegacyBuild => lib.trace = << <<"HMAC_CTX_free", NULL>> >>

C1_Witness ==
    /\ lastOp.op = "free" /\ lastOp.arg = NULL
    /\ IsLegacyBuild
    /\ lib.allocated # {}

\* C2: on both branches AWSSDK_HMAC_CTX_new() followed immediately by
\* AWSSDK_HMAC_CTX_free of the returned handle (null or not) neither crashes
\* nor leaks: the allocated blocks and the initialized contexts are what
\* they were before the pair.
C2_NewThenFreeRestores ==
    (lastOp.op = "free" /\ prevOp.op = "new" /\ lastOp.arg = prevOp.ret) =>
        /\ ~lib.ub
        /\ SameHeap(lib, prevOp.pre)

C2_Witness ==
    /\ lastOp.op = "free" /\ prevOp.op = "new" /\ lastOp.arg = prevOp.ret
    /\ prevOp.ret # NULL
    /\ IsLegacyBuild
    /\ lib.allocated # {}

\* C4: AWSSDK_HMAC_CTX_new returns null exactly when the allocator beneath
\* it (OPENSSL_malloc, HMAC_CTX_new) fails and otherwise returns the
\* allocator's block unchanged; HMAC_CTX_init is never run on a null
\* pointer, and a failed allocation changes no state.
C4_NewPropagatesAllocator ==
    lastOp.op = "new" =>
        /\ lastOp.ret = NULL <=> lastOp.alloc = NULL
        /\ lastOp.ret = lastOp.alloc
        /\ ~lib.ub
        /\ Len(lib.trace) >= 1
        /\ lib.trace[1] =
              <<IF IsLegacyBuild THEN "OPENSSL_malloc" ELSE "HMAC_CTX_new",
                lastOp.alloc>>
        /\ <<"HMAC_CTX_init", NULL>> \notin
              {lib.trace[i] : i \in DOMAIN lib.trace}
        /\ lastOp.alloc = NULL =>
              /\ SameHeap(lib, lastOp.pre)
              /\ SameCounts(lib, lastOp.pre)
              /\ Len(lib.trace) = 1
        /\ lastOp.alloc # NULL => lastOp.ret \in Ready(lib)

C4_Witness ==
    /\ lastOp.op = "new" /\ lastOp.alloc = NULL /\ lastOp.ret = NULL
    /\ IsLegacyBuild
    /\ lib.allocated # {}

\* C5: while the caller frees only handles it owns, every handle returned
\* by the constructor is released by the library exactly once when freed and
\* never released or cleaned up again, and every non-null handle returned by
\* new differs from all live handles.
C5_ReleasedExactlyOnce ==
    ~misuse =>
        /\ ~lib.ub
        /\ owned = Ready(lib)
        /\ lib.allocated = lib.initialized
        /\ \A a \in Addr :
              /\ lib.inits[a] = lib.allocs[a]
              /\ lib.cleanups[a] = lib.frees[a]
              /\ lib.frees[a] =
                    lib.allocs[a] - (IF a \in lib.allocated THEN 1 ELSE 0)
        /\ (lastOp.op = "new" /\ lastOp.ret # NULL) =>
              /\ lastOp.ret \notin lastOp.pre.allocated
              /\ lastOp.ret \in Ready(lib)
        /\ (lastOp.op = "free" /\ lastOp.arg # NULL) =>
              /\ lastOp.arg \notin lib.allocated
              /\ lib.frees[lastOp.arg] = lastOp.pre.frees[lastOp.arg] + 1
              /\ lib.cleanups[lastOp.arg] =
                    lastOp.pre.cleanups[lastOp.arg] + 1
              /\ \A a \in Addr \ {lastOp.arg} :
                    /\ lib.frees[a] = lastOp.pre.frees[a]
                    /\ lib.cleanups[a] = lastOp.pre.cleanups[a]

\* an address handed out twice and released twice, each time once
C5_Witness ==
    /\ ~misuse
    /\ \E a \in Addr : lib.allocs[a] = 2 /\ lib.frees[a] = 2
    /\ lastOp.op = "free" /\ lastOp.arg # NULL

\* C9: on the legacy branch new runs HMAC_CTX_init on the block after
\* OPENSSL_malloc succeeded and before returning it, free runs
\* HMAC_CTX_cleanup strictly before OPENSSL_free, each step once per call,
\* and a free of a context the caller owns never cleans up a released block.
C9_LegacyLifecycleOrder ==
    IsLegacyBuild =>
        /\ (lastOp.op = "new" /\ lastOp.alloc # NULL) =>
              /\ lib.trace = << <<"OPENSSL_malloc", lastOp.ret>>,
                                <<"HMAC_CTX_init", lastOp.ret>> >>
              /\ lib.inits[lastOp.ret] = lastOp.pre.inits[lastOp.ret] + 1
              /\ lib.allocs[lastOp.ret] = lastOp.pre.allocs[lastOp.ret] + 1
        /\ (lastOp.op = "new" /\ lastOp.alloc = NULL) =>
              lib.trace = << <<"OPENSSL_malloc", NULL>> >>
        /\ (lastOp.op = "free" /\ lastOp.arg # NULL) =>
              lib.trace = << <<"HMAC_CTX_cleanup", lastOp.arg>>,
                             <<"OPENSSL_free", lastOp.arg>> >>
        /\ (lastOp.op = "free" /\ lastOp.arg # NULL /\ ~misuse) =>
              /\ ~lib.ub
              /\ lastOp.arg \in Ready(lastOp.pre)
              /\ lib.cleanups[lastOp.arg] =
                    lastOp.pre.cleanups[lastOp.arg] + 1
              /\ lib.frees[lastOp.arg] = lastOp.pre.frees[lastOp.arg] + 1

C9_Witness ==
    /\ IsLegacyBuild
    /\ lastOp.op = "free" /\ lastOp.arg # NULL /\ ~misuse
    /\ prevOp.op = "new" /\ prevOp.ret # NULL
    /\ lib.cleanups[lastOp.arg] = 2

\* C10: for every combination of OPENSSL_VERSION_NUMBER and
\* LIBRESSL_VERSION_NUMBER new and free select the same branch, which is
\* the legacy one exactly when OPENSSL_VERSION_NUMBER < 0x10100000 or
\* LIBRESSL_VERSION_NUMBER is defined and < 0x2070000f; a block from
\* OPENSSL_malloc is released only by HMAC_CTX_cleanup + OPENSSL_free and a
\* block from HMAC_CTX_new only by HMAC_CTX_free.
C10_SameBranchForNewAndFree ==
    /\ lastOp.op = "new" =>
          /\ Len(lib.trace) >= 1
          /\ IsLegacyBuild <=> lib.trace[1][1] = "OPENSSL_malloc"
          /\ ~IsLegacyBuild <=> lib.trace[1][1] = "HMAC_CTX_new"
    /\ (lastOp.op = "free" /\ lastOp.arg # NULL) =>
          /\ IsLegacyBuild <=>
                TraceFns(lib) = <<"HMAC_CTX_cleanup", "OPENSSL_free">>
          /\ ~IsLegacyBuild <=> TraceFns(lib) = <<"HMAC_CTX_free">>
          /\ lastOp.argOrigin = "OPENSSL_malloc" =>
                TraceFns(lib) = <<"HMAC_CTX_cleanup", "OPENSSL_free">>
          /\ lastOp.argOrigin = "HMAC_CTX_new" =>
                TraceFns(lib) = <<"HMAC_CTX_free">>

\* a LibreSSL 2.6 build (OPENSSL_VERSION_NUMBER 0x20000000) frees a context
C10_Witness ==
    /\ opensslVersion = 536870912 /\ libresslVersion = 543162383
    /\ lastOp.op = "free" /\ lastOp.arg # NULL
    /\ lastOp.argOrigin = "OPENSSL_malloc"

\* C3: the legacy and the modern build are observably equivalent: for every
\* sequence of new and free calls and every pattern of allocation failures
\* they return null on the same calls and have the same live, ready-to-use
\* contexts after each call.
C3_BuildsEquivalent ==
    /\ legacyRet = modernRet
    /\ Ready(legacyLib) = Ready(modernLib)
    /\ SameHeap(legacyLib, modernLib)
    /\ legacyLib.ub = modernLib.ub
    /\ ~legacyLib.ub

C3_Witness ==
    /\ equivCalls >= 4
    /\ legacyRet = NULL
    /\ Ready(legacyLib) # {}
    /\ \E a \in Addr : legacyLib.frees[a] >= 1 /\ modernLib.frees[a] >= 1
    /\ Len(legacyLib.trace) = 1 /\ legacyLib.trace[1][1] = "OPENSSL_malloc"

\* C6: every entry of the table rewrites its symbol X to exactly AWS_X: the
\* macro name and the base name are the same identifier in every #define,
\* the two-level expansion substitutes the value of EXPAT_PREFIX (AWS) and
\* not the token EXPAT_PREFIX, and no two entries give the same prefixed
\* name.
C6_TableRenamesToAwsPrefix ==
    /\ \A i \in DOMAIN RenameTable : RenameTable[i][1] = RenameTable[i][2]
    /\ \A i \in DOMAIN cppOut :
          Source[i] \in TableNames =>
              /\ cppOut[i] = "AWS_" \o Source[i]
              /\ cppOut[i] # "EXPAT_PREFIX_" \o Source[i]
    /\ \A i, j \in DOMAIN cppOut :
          (Source[i] \in TableNames /\ Source[j] \in TableNames /\ i # j)
              => cppOut[i] # cppOut[j]

\* the whole translation unit went through the preprocessor
C6_Witness ==
    /\ cppPos = Len(Source)
    /\ cppCur = NoToken
    /\ Len(cppOut) = Len(Source)
    /\ cppOut[9] = "AWS__INTERNAL_trim_to_complete_utf8_characters"
    /\ cppOut[Len(RenameTable)] = "AWS_XmlPrologStateInit"

====
